---- MODULE Spec2Model ----
(***************************************************************************)
(* A model of tikbox/id_generator (src/id_generator.go): one IdGenerator   *)
(* instance, its backing file, and a fixed set of goroutines calling its   *)
(* exported methods.  Text written to and read from the file is a sequence *)
(* of one-character strings, so strconv.Itoa, strings.Join, bytes.Split    *)
(* and strconv.Atoi are modelled by what they compute.                     *)
(***************************************************************************)
EXTENDS Integers, Sequences, FiniteSets, TLC

\* ------------------------------------------------------------ bounds
\* Number of goroutines calling into the generator.
NumCallers == 2
\* WithIdCount is drawn from 1..MaxIdCount.
MaxIdCount == 2
\* idMapLength (cycleDuration / unitDuration) is at most MaxIdMapLength.
MaxIdMapLength == 2
\* LoadIds start keys (startTime.UnixNano() / unitDuration) are 0..MaxStartKey.
MaxStartKey == 1
\* GenerateRandIds is called at most MaxGenerations times in a run.
MaxGenerations == 1

Procs == 1..NumCallers

\* The (minId, maxId) pairs WithIdRange is called with: a range that holds one
\* id only (as the default range holds fewer ids than DefaultIdCount), and a
\* range wider than the idCounts tried, given in the wrong order.
IdRanges == {<<9, 10>>, <<12, 9>>}

IdCounts == 1..MaxIdCount

\* The (cycleDuration, unitDuration) pairs WithCycleDuration and
\* WithUnitDuration are called with, in days: the cycles of 1..MaxIdMapLength
\* one-day units, a cycle of one and a half units, and a cycle of one
\* week-long unit.
Durations == {<<c, 1>> : c \in 1..MaxIdMapLength} \cup {<<3, 2>>, <<7, 7>>}

StartKeys == 0..MaxStartKey

\* Keys GetId is asked for: every key some loaded map can hold (no map holds
\* them all when MaxStartKey > 0).
Keys == 0..(MaxStartKey + MaxIdMapLength - 1)

\* The instants time.Now() returns to getCycleStartTime, in days since the
\* Unix epoch.
Nows == {4, 5}

\* ------------------------------------------------------------ text
LF == "\n"

Digits == <<"0", "1", "2", "3", "4", "5", "6", "7", "8", "9">>

IsDigit(c) == \E d \in 1..10 : Digits[d] = c

DigitVal(c) == (CHOOSE d \in 1..10 : Digits[d] = c) - 1

\* strconv.Itoa: the decimal text of n.
RECURSIVE Itoa(_)
Itoa(n) ==
    IF n < 0 THEN <<"-">> \o Itoa(0 - n)
    ELSE IF n < 10 THEN <<Digits[n + 1]>>
    ELSE Itoa(n \div 10) \o <<Digits[(n % 10) + 1]>>

RECURSIVE DigitsVal(_)
DigitsVal(s) ==
    IF s = <<>> THEN 0
    ELSE 10 * DigitsVal(SubSeq(s, 1, Len(s) - 1)) + DigitVal(s[Len(s)])

\* strconv.Atoi: the value and whether the text parsed; on a syntax error the
\* value is 0.
Atoi(s) ==
    LET signed == s # <<>> /\ s[1] \in {"+", "-"}
        body == IF signed THEN Tail(s) ELSE s
        ok == body # <<>> /\ \A i \in 1..Len(body) : IsDigit(body[i])
    IN  IF ~ok THEN [val |-> 0, ok |-> FALSE]
        ELSE IF signed /\ s[1] = "-" THEN [val |-> 0 - DigitsVal(body), ok |-> TRUE]
        ELSE [val |-> DigitsVal(body), ok |-> TRUE]

\* A writer whose separator is not the one LoadIds splits on.
RECURSIVE JoinWithComma(_)
JoinWithComma(strs) ==
    IF strs = <<>> THEN <<>>
    ELSE IF Len(strs) = 1 THEN strs[1]
    ELSE strs[1] \o <<",">> \o JoinWithComma(Tail(strs))

\* strings.Join(strs, "\n").
RECURSIVE Join(_)
Join(strs) ==
    IF strs = <<>> THEN <<>>
    ELSE IF Len(strs) = 1 THEN strs[1]
    ELSE strs[1] \o <<LF>> \o Join(Tail(strs))

\* bytes.Split(content, "\n"): the pieces between the separators; the empty
\* content splits into one empty piece.
RECURSIVE Split(_)
Split(content) ==
    IF \A i \in 1..Len(content) : content[i] # LF THEN <<content>>
    ELSE LET at == CHOOSE i \in 1..Len(content) :
                       content[i] = LF /\ \A j \in 1..(i - 1) : content[j] # LF
         IN  <<SubSeq(content, 1, at - 1)>>
                 \o Split(SubSeq(content, at + 1, Len(content)))

Range(s) == {s[i] : i \in 1..Len(s)}

\* m[key] = v of a Go map.
MapPut(m, key, v) ==
    [k \in (DOMAIN m) \cup {key} |-> IF k = key THEN v ELSE m[k]]

\* What a WriteString that fails can leave behind: a proper prefix of the text.
ShortWrites(s) == {<<>>}

\* ------------------------------------------------------------ state
VARIABLES
    ids,          \* g.ids: the pool
    idMap,        \* g.idMap: key -> id
    usedIdMap,    \* g.usedIdMap: the ids marked used
    minId,        \* g.minId
    maxId,        \* g.maxId
    idCount,      \* g.idCount
    idMapLength,  \* g.idMapLength
    cycleDuration, \* g.cycleDuration
    unitDuration, \* g.unitDuration
    mu,           \* g.mu: 0 when free, else the goroutine holding it
    file,         \* the file g.filename names: whether it exists, and its text
    pc,           \* where each goroutine is
    key,          \* GetId's key
    arg,          \* MarkIdAsUsed's id
    ret,          \* what GetId returned
    err,          \* the error the goroutine's call is about to return
    startTime,    \* LoadIds' startTime
    startKey,     \* LoadIds' startTimeNum
    inInitialize, \* whether the goroutine's call was made by Initialize
    idsStr,       \* LoadIds' idsStr
    li,           \* LoadIds' loop index i
    marked,       \* history: ids marked used since the pool was generated or saved
    dropped,      \* history: of those, the ids marked used at a successful SyncIdsToFile
    cycleFile,    \* history: ids the file held when LoadIds last read it
    saved,        \* history: the pool SaveIdsToFile last wrote, while the file still holds it
    generations   \* history: how many times GenerateRandIds has run

gvars == <<ids, idMap, usedIdMap, minId, maxId, idCount, idMapLength,
           cycleDuration, unitDuration>>

lvars == <<key, arg, ret, err, startTime, startKey, inInitialize, idsStr, li>>

hvars == <<marked, dropped, cycleFile, saved, generations>>

vars == <<gvars, mu, file, pc, lvars, hvars>>

NoFile == [exists |-> FALSE, data |-> <<>>]

\* The file before the program first runs.
InitialFiles == {NoFile}

NotSaved == [ok |-> FALSE, seq |-> <<>>]

\* The ids a file's lines parse to, as LoadIds parses them.
ParsedLines(data) == [i \in 1..Len(Split(data)) |-> Atoi(Split(data)[i]).val]

IdsIn(f) == IF f.exists THEN Range(ParsedLines(f.data)) ELSE {}

\* NewIdGenerator: the fields after the options have been applied.
Init ==
    /\ ids = <<>>
    /\ idMap = <<>>
    /\ usedIdMap = {}
    /\ \E r \in IdRanges : minId = r[1] /\ maxId = r[2]
    /\ idCount \in IdCounts
    /\ \E d \in Durations :
           /\ cycleDuration = d[1]
           /\ unitDuration = d[2]
           /\ idMapLength = d[1] \div d[2]
    /\ mu = 0
    /\ file \in InitialFiles
    /\ pc = [p \in Procs |-> "idle"]
    /\ key = [p \in Procs |-> 0]
    /\ arg = [p \in Procs |-> 0]
    /\ ret = [p \in Procs |-> 0]
    /\ err = [p \in Procs |-> "nil"]
    /\ startTime = [p \in Procs |-> 0]
    /\ startKey = [p \in Procs |-> 0]
    /\ inInitialize = [p \in Procs |-> FALSE]
    /\ idsStr = [p \in Procs |-> <<>>]
    /\ li = [p \in Procs |-> 0]
    /\ marked = {}
    /\ dropped = {}
    /\ cycleFile = {}
    /\ saved = NotSaved
    /\ generations = 0

\* The goroutine is back in its caller, its call's locals gone.
Return(p) ==
    /\ pc' = [pc EXCEPT ![p] = "idle"]
    /\ err' = [err EXCEPT ![p] = "nil"]
    /\ key' = [key EXCEPT ![p] = 0]
    /\ arg' = [arg EXCEPT ![p] = 0]
    /\ ret' = [ret EXCEPT ![p] = 0]
    /\ startTime' = [startTime EXCEPT ![p] = 0]
    /\ startKey' = [startKey EXCEPT ![p] = 0]
    /\ inInitialize' = [inInitialize EXCEPT ![p] = FALSE]
    /\ idsStr' = [idsStr EXCEPT ![p] = <<>>]
    /\ li' = [li EXCEPT ![p] = 0]

Goto(p, label) == pc' = [pc EXCEPT ![p] = label]

\* A panic (LoadIds indexing past idsStr) ends the process.
Crashed == \E q \in Procs : pc[q] = "panic"

\* Goroutine p is at label, and the process is alive.
At(p, label) == pc[p] = label /\ ~Crashed

\* ------------------------------------------------------------ time
\* Days from the zero time.Time (January 1 of year 1) to the Unix epoch.
UnixToInternal == 719162

\* Go's integer division, which truncates toward zero.
Quo(a, b) == IF a >= 0 THEN a \div b ELSE 0 - ((0 - a) \div b)

\* time.Time.Truncate: t rounded down to a multiple of d since the zero time;
\* t itself when d <= 0.
Truncate(t, d) == IF d <= 0 THEN t ELSE t - ((t + UnixToInternal) % d)

\* getCycleStartTime(offset) when time.Now() is now.
getCycleStartTime(now, offset) ==
    Truncate(now, cycleDuration) + offset * cycleDuration

\* startTime.UnixNano() / int64(g.unitDuration), and the key the usage flow
\* asks GetId for at instant t.
UnitKey(t) == Quo(t, unitDuration)

\* ------------------------------------------------------------ GenerateRandIds
\* The sequential range the pool starts as: lo, lo+1, ..., lo+count-1.
FillRange(lo, count) == [i \in 1..count |-> lo + (i - 1)]

Swap(s, i, j) == [s EXCEPT ![i] = s[j], ![j] = s[i]]

\* The values rand.Intn(i + 1) can take for i = count-1 down to 1.
ShuffleChoices(count) ==
    {js \in [1..(count - 1) -> 0..(count - 1)] : \A i \in 1..(count - 1) : js[i] <= i}

\* The Fisher-Yates loop from index i (0-based) down to 1, with js[i] drawn.
RECURSIVE FisherYates(_, _, _)
FisherYates(s, i, js) ==
    IF i <= 0 THEN s
    ELSE FisherYates(Swap(s, i + 1, js[i] + 1), i - 1, js)

CallGenerateRandIds(p) ==
    /\ At(p, "idle")
    /\ generations < MaxGenerations
    /\ Goto(p, "GenFill")
    /\ err' = [err EXCEPT ![p] = "nil"]
    /\ UNCHANGED <<gvars, mu, file, key, arg, ret, startKey, startTime, inInitialize, idsStr, li, hvars>>

GenFill(p) ==
    /\ At(p, "GenFill")
    /\ LET lo == IF minId > maxId THEN maxId ELSE minId
           hi == IF minId > maxId THEN minId ELSE maxId
       IN  /\ minId' = lo
           /\ maxId' = hi
           /\ ids' = FillRange(lo, idCount)
    /\ Goto(p, "GenShuffle")
    /\ marked' = {}
    /\ dropped' = {}
    /\ cycleFile' = {}
    /\ generations' = generations + 1
    /\ UNCHANGED <<idMap, usedIdMap, idCount, idMapLength, cycleDuration, unitDuration, mu, file, lvars, saved>>

GenShuffle(p) ==
    /\ At(p, "GenShuffle")
    /\ \E js \in ShuffleChoices(Len(ids)) : ids' = FisherYates(ids, Len(ids) - 1, js)
    /\ IF inInitialize[p]
         THEN Goto(p, "SaveCreate") /\ UNCHANGED lvars
         ELSE Return(p)
    /\ UNCHANGED <<idMap, usedIdMap, minId, maxId, idCount, idMapLength, cycleDuration, unitDuration, mu, file, hvars>>

\* ------------------------------------------------------------ SaveIdsToFile
\* The text both SaveIdsToFile and SyncIdsToFile write for a list of ids.
Encode(list) == Join([i \in 1..Len(list) |-> Itoa(list[i])])

CallSaveIdsToFile(p) ==
    /\ At(p, "idle")
    /\ Goto(p, "SaveCreate")
    /\ err' = [err EXCEPT ![p] = "nil"]
    /\ UNCHANGED <<gvars, mu, file, key, arg, ret, startKey, startTime, inInitialize, idsStr, li, hvars>>

\* os.Create: truncates the file, or fails and leaves it.
SaveCreate(p) ==
    /\ At(p, "SaveCreate")
    /\ \/ /\ file' = [exists |-> TRUE, data |-> <<>>]
          /\ Goto(p, "SaveWrite")
          /\ saved' = NotSaved
          /\ cycleFile' = {}
          /\ marked' = {}
          /\ dropped' = {}
          /\ UNCHANGED err
       \/ /\ Goto(p, "SaveRet")
          /\ err' = [err EXCEPT ![p] = "err"]
          /\ UNCHANGED <<file, saved, cycleFile, marked, dropped>>
    /\ UNCHANGED <<gvars, mu, key, arg, ret, startKey, startTime, inInitialize, idsStr, li, generations>>

\* A SaveIdsToFile that also binds the pool's first identifier to key 0.
SaveWriteBuildsMap(p) ==
    /\ At(p, "SaveWrite")
    /\ \/ /\ file' = [exists |-> TRUE, data |-> Encode(ids)]
          /\ saved' = [ok |-> TRUE, seq |-> ids]
          /\ UNCHANGED err
       \/ /\ \E short \in ShortWrites(Encode(ids)) :
                 file' = [exists |-> TRUE, data |-> short]
          /\ saved' = NotSaved
          /\ err' = [err EXCEPT ![p] = "err"]
    /\ idMap' = IF ids = <<>> THEN idMap ELSE MapPut(idMap, 0, ids[1])
    /\ Goto(p, "SaveRet")
    /\ UNCHANGED <<ids, usedIdMap, minId, maxId, idCount, idMapLength, cycleDuration, unitDuration,
                   mu, key, arg, ret, startKey, startTime, inInitialize, idsStr, li,
                   marked, dropped, cycleFile, generations>>

SaveWrite(p) ==
    /\ At(p, "SaveWrite")
    /\ \/ /\ file' = [exists |-> TRUE, data |-> Encode(ids)]
          /\ saved' = [ok |-> TRUE, seq |-> ids]
          /\ UNCHANGED err
       \/ /\ \E short \in ShortWrites(Encode(ids)) :
                 file' = [exists |-> TRUE, data |-> short]
          /\ saved' = NotSaved
          /\ err' = [err EXCEPT ![p] = "err"]
    /\ Goto(p, "SaveRet")
    /\ UNCHANGED <<gvars, mu, key, arg, ret, startKey, startTime, inInitialize, idsStr, li,
                   marked, dropped, cycleFile, generations>>

SaveRet(p) ==
    /\ At(p, "SaveRet")
    /\ Return(p)
    /\ UNCHANGED <<gvars, mu, file, hvars>>

\* ------------------------------------------------------------ LoadIds
\* LoadIds called with the instant at which unit startTimeNum begins.
CallLoadIds(p, startTimeNum) ==
    /\ At(p, "idle")
    /\ Goto(p, "LoadReset")
    /\ err' = [err EXCEPT ![p] = "nil"]
    /\ startTime' = [startTime EXCEPT ![p] = startTimeNum * unitDuration]
    /\ startKey' = [startKey EXCEPT ![p] = startTimeNum]
    /\ UNCHANGED <<gvars, mu, file, key, arg, ret, inInitialize, idsStr, li, hvars>>

\* A LoadIds that clears the pool but keeps writing into the map it finds.
LoadResetKeepsMap(p) ==
    /\ At(p, "LoadReset")
    /\ ids' = <<>>
    /\ idMap' = idMap
    /\ Goto(p, "LoadRead")
    /\ cycleFile' = {}
    /\ UNCHANGED <<usedIdMap, minId, maxId, idCount, idMapLength, cycleDuration, unitDuration, mu, file, lvars,
                   marked, dropped, saved, generations>>

\* A LoadIds that takes the lock before it replaces the pool and the map.
LoadResetLocking(p) ==
    /\ At(p, "LoadReset")
    /\ mu = 0
    /\ mu' = p
    /\ ids' = <<>>
    /\ idMap' = <<>>
    /\ Goto(p, "LoadRead")
    /\ cycleFile' = {}
    /\ UNCHANGED <<usedIdMap, minId, maxId, idCount, idMapLength, cycleDuration, unitDuration, file, lvars,
                   marked, dropped, saved, generations>>

LoadReset(p) ==
    /\ At(p, "LoadReset")
    /\ ids' = <<>>
    /\ idMap' = <<>>
    /\ Goto(p, "LoadRead")
    /\ cycleFile' = {}
    /\ UNCHANGED <<usedIdMap, minId, maxId, idCount, idMapLength, cycleDuration, unitDuration, mu, file, lvars,
                   marked, dropped, saved, generations>>

\* os.ReadFile and bytes.Split: fails when the file is absent or unreadable.
LoadRead(p) ==
    /\ At(p, "LoadRead")
    /\ \/ /\ file.exists
          /\ idsStr' = [idsStr EXCEPT ![p] = Split(file.data)]
          /\ li' = [li EXCEPT ![p] = 0]
          /\ Goto(p, "LoadLoop")
          /\ cycleFile' = IdsIn(file)
          /\ UNCHANGED err
       \/ /\ Goto(p, "LoadRet")
          /\ err' = [err EXCEPT ![p] = "err"]
          /\ UNCHANGED <<idsStr, li, cycleFile>>
    /\ UNCHANGED <<gvars, mu, file, key, arg, ret, startKey, startTime, inInitialize, marked, dropped, saved,
                   generations>>

\* One turn of the loop: the exit test, and if it passes the body; indexing
\* idsStr past its end panics.  The write to the map is unsynchronized: when
\* it meets GetId's read of the map the runtime may stop the process
\* (concurrent map read and map write) or let both through.
LoadLoop(p) ==
    /\ At(p, "LoadLoop")
    /\ IF li[p] >= idMapLength
         THEN /\ Goto(p, "LoadRet")
              /\ UNCHANGED <<ids, idMap, lvars>>
       ELSE IF li[p] + 1 > Len(idsStr[p])
         THEN /\ Goto(p, "panic")
              /\ UNCHANGED <<ids, idMap, lvars>>
       ELSE \/ LET id == Atoi(idsStr[p][li[p] + 1]).val
               IN  /\ idMap' = MapPut(idMap, startKey[p] + li[p], id)
                   /\ ids' = Append(ids, id)
                   /\ li' = [li EXCEPT ![p] = li[p] + 1]
                   /\ UNCHANGED <<pc, key, arg, ret, err, startKey, startTime, inInitialize, idsStr>>
            \/ /\ \E q \in Procs \ {p} : pc[q] = "GetIdBody"
               /\ Goto(p, "panic")
               /\ UNCHANGED <<ids, idMap, lvars>>
    /\ UNCHANGED <<usedIdMap, minId, maxId, idCount, idMapLength, cycleDuration, unitDuration, mu, file, hvars>>

LoadRet(p) ==
    /\ At(p, "LoadRet")
    /\ Return(p)
    /\ UNCHANGED <<gvars, mu, file, hvars>>

\* Goroutine p is inside LoadIds.
LoadSteps(p) == pc[p] \in {"LoadReset", "LoadRead", "LoadLoop", "LoadRet"}

\* ------------------------------------------------------------ GetId
\* A lookup that ignores the key's unit and reads the cycle's first bucket.
GetIdResultFirstBucket(m, used, k) ==
    LET first == CHOOSE j \in DOMAIN m : \A i \in DOMAIN m : j <= i
    IN  IF k \in DOMAIN m /\ m[first] \notin used THEN m[first] ELSE 0

\* What GetId returns for a key, from the map and the used set it reads.
GetIdResult(m, used, k) ==
    IF k \in DOMAIN m /\ m[k] \notin used THEN m[k] ELSE 0

CallGetId(p, k) ==
    /\ At(p, "idle")
    /\ Goto(p, "GetIdLock")
    /\ key' = [key EXCEPT ![p] = k]
    /\ err' = [err EXCEPT ![p] = "nil"]
    /\ UNCHANGED <<gvars, mu, file, arg, ret, startKey, startTime, inInitialize, idsStr, li, hvars>>

GetIdLock(p) ==
    /\ At(p, "GetIdLock")
    /\ mu = 0
    /\ mu' = p
    /\ Goto(p, "GetIdBody")
    /\ UNCHANGED <<gvars, file, lvars, hvars>>

\* The lookup, then the deferred Unlock as the call returns; the caller now
\* holds the returned id.
GetIdBody(p) ==
    /\ At(p, "GetIdBody")
    /\ ret' = [ret EXCEPT ![p] = GetIdResult(idMap, usedIdMap, key[p])]
    /\ mu' = 0
    /\ Goto(p, "got")
    /\ UNCHANGED <<gvars, file, key, arg, err, startKey, startTime, inInitialize, idsStr, li, hvars>>

\* ------------------------------------------------------------ MarkIdAsUsed
\* A MarkIdAsUsed that flips the mark of an id instead of setting it.
MarkResultToggle(used, id) ==
    IF id = 0 THEN used
    ELSE IF id \in used THEN used \ {id}
    ELSE used \cup {id}

\* MarkIdAsUsed without its test for the sentinel.
MarkResultNoSentinelTest(used, id) == used \cup {id}

\* The used set after MarkIdAsUsed(id).
MarkResult(used, id) == IF id = 0 THEN used ELSE used \cup {id}

\* The usage flow: a caller marks the id GetId returned to it.
CallMarkIdAsUsed(p, id) ==
    /\ At(p, "got")
    /\ id = ret[p]
    /\ Goto(p, "MarkLock")
    /\ arg' = [arg EXCEPT ![p] = id]
    /\ err' = [err EXCEPT ![p] = "nil"]
    /\ UNCHANGED <<gvars, mu, file, key, ret, startKey, startTime, inInitialize, idsStr, li, hvars>>

MarkLock(p) ==
    /\ At(p, "MarkLock")
    /\ mu = 0
    /\ mu' = p
    /\ Goto(p, "MarkBody")
    /\ UNCHANGED <<gvars, file, lvars, hvars>>

\* A MarkIdAsUsed whose early return for id == 0 skips the Unlock.
MarkBodyEarlyReturnKeepsLock(p) ==
    /\ At(p, "MarkBody")
    /\ usedIdMap' = MarkResult(usedIdMap, arg[p])
    /\ marked' = IF arg[p] = 0 THEN marked ELSE marked \cup {arg[p]}
    /\ mu' = IF arg[p] = 0 THEN mu ELSE 0
    /\ Return(p)
    /\ UNCHANGED <<ids, idMap, minId, maxId, idCount, idMapLength, cycleDuration, unitDuration, file,
                   dropped, cycleFile, saved, generations>>

\* The body, then the deferred Unlock as the call returns.
MarkBody(p) ==
    /\ At(p, "MarkBody")
    /\ usedIdMap' = MarkResult(usedIdMap, arg[p])
    /\ marked' = IF arg[p] = 0 THEN marked ELSE marked \cup {arg[p]}
    /\ mu' = 0
    /\ Return(p)
    /\ UNCHANGED <<ids, idMap, minId, maxId, idCount, idMapLength, cycleDuration, unitDuration, file,
                   dropped, cycleFile, saved, generations>>

\* ------------------------------------------------------------ SyncIdsToFile
\* SyncIdsToFile without its filter: the whole pool is written back.
UnusedNotFiltered(pool, used) == pool

\* The ids SyncIdsToFile writes: those of the pool not marked used, in order.
Unused(pool, used) == SelectSeq(pool, LAMBDA id : id \notin used)

CallSyncIdsToFile(p) ==
    /\ At(p, "idle")
    /\ Goto(p, "SyncLock")
    /\ err' = [err EXCEPT ![p] = "nil"]
    /\ UNCHANGED <<gvars, mu, file, key, arg, ret, startKey, startTime, inInitialize, idsStr, li, hvars>>

\* A SyncIdsToFile that enters without waiting for the lock.
SyncLockNoWait(p) ==
    /\ At(p, "SyncLock")
    /\ mu' = p
    /\ Goto(p, "SyncCreate")
    /\ UNCHANGED <<gvars, file, lvars, hvars>>

SyncLock(p) ==
    /\ At(p, "SyncLock")
    /\ mu = 0
    /\ mu' = p
    /\ Goto(p, "SyncCreate")
    /\ UNCHANGED <<gvars, file, lvars, hvars>>

\* os.Create: truncates the file, or fails and the call returns the error.
SyncCreate(p) ==
    /\ At(p, "SyncCreate")
    /\ \/ /\ file' = [exists |-> TRUE, data |-> <<>>]
          /\ Goto(p, "SyncWrite")
          /\ saved' = NotSaved
          /\ UNCHANGED err
       \/ /\ Goto(p, "SyncUnlock")
          /\ err' = [err EXCEPT ![p] = "err"]
          /\ UNCHANGED <<file, saved>>
    /\ UNCHANGED <<gvars, mu, key, arg, ret, startKey, startTime, inInitialize, idsStr, li,
                   marked, dropped, cycleFile, generations>>

\* A SyncIdsToFile that resets usedIdMap before it knows the write succeeded.
SyncWriteClearsOnFailure(p) ==
    /\ At(p, "SyncWrite")
    /\ \/ /\ file' = [exists |-> TRUE, data |-> Encode(Unused(ids, usedIdMap))]
          /\ dropped' = dropped \cup usedIdMap
          /\ UNCHANGED err
       \/ /\ \E short \in ShortWrites(Encode(Unused(ids, usedIdMap))) :
                 file' = [exists |-> TRUE, data |-> short]
          /\ err' = [err EXCEPT ![p] = "err"]
          /\ UNCHANGED dropped
    /\ usedIdMap' = {}
    /\ Goto(p, "SyncUnlock")
    /\ cycleFile' = {}
    /\ UNCHANGED <<ids, idMap, minId, maxId, idCount, idMapLength, cycleDuration, unitDuration, mu,
                   key, arg, ret, startKey, startTime, inInitialize, idsStr, li, marked, saved, generations>>

\* The filter loop, WriteString, and on success the reset of usedIdMap.
SyncWrite(p) ==
    /\ At(p, "SyncWrite")
    /\ \/ /\ file' = [exists |-> TRUE, data |-> Encode(Unused(ids, usedIdMap))]
          /\ usedIdMap' = {}
          /\ dropped' = dropped \cup usedIdMap
          /\ UNCHANGED err
       \/ /\ \E short \in ShortWrites(Encode(Unused(ids, usedIdMap))) :
                 file' = [exists |-> TRUE, data |-> short]
          /\ err' = [err EXCEPT ![p] = "err"]
          /\ UNCHANGED <<usedIdMap, dropped>>
    /\ Goto(p, "SyncUnlock")
    /\ cycleFile' = {}
    /\ UNCHANGED <<ids, idMap, minId, maxId, idCount, idMapLength, cycleDuration, unitDuration, mu,
                   key, arg, ret, startKey, startTime, inInitialize, idsStr, li, marked, saved, generations>>

SyncUnlock(p) ==
    /\ At(p, "SyncUnlock")
    /\ mu' = 0
    /\ Return(p)
    /\ UNCHANGED <<gvars, file, hvars>>

\* ------------------------------------------------------------ Initialize
\* os.Stat and the branch on it: a missing or empty file is generated and
\* saved, any other is loaded for the current cycle's start.  When os.Stat
\* fails for another reason fileInfo is nil and fileInfo.Size() panics.
CallInitialize(p) ==
    /\ At(p, "idle")
    /\ err' = [err EXCEPT ![p] = "nil"]
    /\ inInitialize' = [inInitialize EXCEPT ![p] = TRUE]
    /\ \/ /\ ~file.exists \/ Len(file.data) = 0
          /\ generations < MaxGenerations
          /\ Goto(p, "GenFill")
          /\ UNCHANGED <<startTime, startKey>>
       \/ /\ file.exists /\ Len(file.data) # 0
          /\ \E now \in Nows :
                /\ startTime' = [startTime EXCEPT ![p] = getCycleStartTime(now, 0)]
                /\ startKey' = [startKey EXCEPT ![p] = UnitKey(getCycleStartTime(now, 0))]
          /\ Goto(p, "LoadReset")
       \/ /\ file.exists
          /\ Goto(p, "panic")
          /\ UNCHANGED <<startTime, startKey>>
    /\ UNCHANGED <<gvars, mu, file, key, arg, ret, idsStr, li, hvars>>

\* ------------------------------------------------------------ the program
SetupLabels ==
    {"GenFill", "GenShuffle", "SaveCreate", "SaveWrite", "SaveRet",
     "LoadReset", "LoadRead", "LoadLoop", "LoadRet"}

\* GenerateRandIds, SaveIdsToFile and LoadIds take no lock.  They are called
\* only while no allocation is in flight (every other goroutine is outside
\* GetId .. MarkIdAsUsed and SyncIdsToFile), and no call starts while one of
\* them runs.
SetupRunning == \E q \in Procs : pc[q] \in SetupLabels

MayCallSetup(p) == \A q \in Procs \ {p} : pc[q] = "idle"

Next ==
    \E p \in Procs :
        \/ MayCallSetup(p) /\ CallInitialize(p)
        \/ MayCallSetup(p) /\ CallGenerateRandIds(p)
        \/ GenFill(p)
        \/ GenShuffle(p)
        \/ MayCallSetup(p) /\ CallSaveIdsToFile(p)
        \/ SaveCreate(p)
        \/ SaveWrite(p)
        \/ SaveRet(p)
        \/ MayCallSetup(p) /\ \E k \in StartKeys : CallLoadIds(p, k)
        \/ LoadReset(p)
        \/ LoadRead(p)
        \/ LoadLoop(p)
        \/ LoadRet(p)
        \/ ~SetupRunning /\ \E k \in Keys : CallGetId(p, k)
        \/ GetIdLock(p)
        \/ GetIdBody(p)
        \/ ~SetupRunning /\ CallMarkIdAsUsed(p, ret[p])
        \/ MarkLock(p)
        \/ MarkBody(p)
        \/ ~SetupRunning /\ CallSyncIdsToFile(p)
        \/ SyncLock(p)
        \/ SyncCreate(p)
        \/ SyncWrite(p)
        \/ SyncUnlock(p)

Spec == Init /\ [][Next]_vars

\* ------------------------------------------------------------ LoadIds amid allocation
\* The files an earlier run of the program with the same options has left:
\* what SaveIdsToFile wrote for a pool GenerateRandIds made.
SavedFiles ==
    LET lo == IF minId > maxId THEN maxId ELSE minId
    IN  {[exists |-> TRUE,
          data |-> Encode(FisherYates(FillRange(lo, idCount), idCount - 1, js))] :
             js \in ShuffleChoices(idCount)}

LoadRunning == \E q \in Procs : LoadSteps(q)

\* A generator started on the file of an earlier run.
SavedInit ==
    /\ ids = <<>>
    /\ idMap = <<>>
    /\ usedIdMap = {}
    /\ \E r \in IdRanges : minId = r[1] /\ maxId = r[2]
    /\ idCount \in IdCounts
    /\ \E d \in Durations :
           /\ cycleDuration = d[1]
           /\ unitDuration = d[2]
           /\ idMapLength = d[1] \div d[2]
    /\ mu = 0
    /\ file \in SavedFiles
    /\ pc = [p \in Procs |-> "idle"]
    /\ key = [p \in Procs |-> 0]
    /\ arg = [p \in Procs |-> 0]
    /\ ret = [p \in Procs |-> 0]
    /\ err = [p \in Procs |-> "nil"]
    /\ startTime = [p \in Procs |-> 0]
    /\ startKey = [p \in Procs |-> 0]
    /\ inInitialize = [p \in Procs |-> FALSE]
    /\ idsStr = [p \in Procs |-> <<>>]
    /\ li = [p \in Procs |-> 0]
    /\ marked = {}
    /\ dropped = {}
    /\ cycleFile = {}
    /\ saved = NotSaved
    /\ generations = 0

\* The program when one goroutine at a time calls LoadIds, whatever the
\* others are doing, and GetId, MarkIdAsUsed and SyncIdsToFile are called
\* while it runs.
RaceNext ==
    \E p \in Procs :
        \/ ~LoadRunning /\ \E k \in StartKeys : CallLoadIds(p, k)
        \/ LoadReset(p)
        \/ LoadRead(p)
        \/ LoadLoop(p)
        \/ LoadRet(p)
        \/ \E k \in Keys : CallGetId(p, k)
        \/ GetIdLock(p)
        \/ GetIdBody(p)
        \/ CallMarkIdAsUsed(p, ret[p])
        \/ MarkLock(p)
        \/ MarkBody(p)
        \/ CallSyncIdsToFile(p)
        \/ SyncLock(p)
        \/ SyncCreate(p)
        \/ SyncWrite(p)
        \/ SyncUnlock(p)

RaceSpec == SavedInit /\ [][RaceNext]_vars

\* ------------------------------------------------------------ scheduling
\* The Go scheduler runs every runnable goroutine, so a call that can take
\* its next step does; sync.Mutex hands the lock to a goroutine that has
\* waited long (starvation mode), so a waiter that could lock again and again
\* does lock.
Fairness ==
    \A p \in Procs :
        /\ SF_vars(GetIdLock(p) \/ MarkLock(p) \/ SyncLock(p))
        /\ WF_vars(GetIdBody(p) \/ MarkBody(p)
                      \/ SyncCreate(p) \/ SyncWrite(p) \/ SyncUnlock(p))

\* The allocation traffic of a generator started on a saved file: LoadIds
\* while no allocation is in flight, and GetId, MarkIdAsUsed and
\* SyncIdsToFile.
AllocNext ==
    \E p \in Procs :
        \/ MayCallSetup(p) /\ \E k \in StartKeys : CallLoadIds(p, k)
        \/ LoadReset(p)
        \/ LoadRead(p)
        \/ LoadLoop(p)
        \/ LoadRet(p)
        \/ ~SetupRunning /\ \E k \in Keys : CallGetId(p, k)
        \/ GetIdLock(p)
        \/ GetIdBody(p)
        \/ ~SetupRunning /\ CallMarkIdAsUsed(p, ret[p])
        \/ MarkLock(p)
        \/ MarkBody(p)
        \/ ~SetupRunning /\ CallSyncIdsToFile(p)
        \/ SyncLock(p)
        \/ SyncCreate(p)
        \/ SyncWrite(p)
        \/ SyncUnlock(p)

FairSpec == SavedInit /\ [][AllocNext]_vars /\ Fairness

\* ------------------------------------------------------------ properties
\* The goroutine has been handed ret[p] by GetId(key[p]) and has not yet
\* finished marking it.
Holding(p) == pc[p] \in {"got", "MarkLock", "MarkBody"}

\* The steps the properties speak of.
GetIdReturns(p) == pc[p] = "GetIdBody" /\ pc'[p] = "got"

MarkReturns(p) == pc[p] = "MarkBody" /\ pc'[p] = "idle"

SyncSucceeds(p) == pc[p] = "SyncWrite" /\ pc'[p] = "SyncUnlock" /\ err'[p] = "nil"

GenerateReturns(p) == pc[p] = "GenShuffle" /\ pc'[p] = "idle"

Injective(m) == \A j, k \in DOMAIN m : m[j] = m[k] => j = k

\* C1: of the callers that run GetId(k) and then MarkIdAsUsed on the result,
\* at most one is handed a non-zero identifier for k: no two callers hold a
\* non-zero result for the same key at once.
C1_OneCallerPerKey ==
    \A p, q \in Procs :
        (p # q /\ Holding(p) /\ Holding(q) /\ key[p] = key[q])
            => (ret[p] = 0 \/ ret[q] = 0)

\* C2: callers that ask for pairwise distinct keys, under a map that sends
\* each identifier to at most one key, are never handed the same non-zero
\* identifier.
C2_DistinctKeysDistinctIds ==
    \A p, q \in Procs :
        (p # q /\ Holding(p) /\ Holding(q) /\ key[p] # key[q]
             /\ Injective(idMap) /\ ret[p] # 0)
            => ret[p] # ret[q]

C2_Witness ==
    \E p, q \in Procs :
        /\ p # q /\ pc[p] = "got" /\ pc[q] = "got"
        /\ key[p] # key[q] /\ ret[p] # 0 /\ ret[q] # 0
        /\ Injective(idMap)

\* C3: once an identifier has been marked used, no later GetId returns it
\* (while the pool is not regenerated).
C3_MarkedNeverReturned ==
    [][\A p \in Procs : GetIdReturns(p) => ret'[p] \notin marked]_vars

\* C4: a successful SyncIdsToFile leaves the file holding exactly the pool's
\* identifiers that are not marked used, in pool order (an empty file when
\* there are none), and the used set empty.
C4_SyncWritesUnused ==
    [][\A p \in Procs : SyncSucceeds(p) =>
          LET keep == SelectSeq(ids, LAMBDA id : id \notin usedIdMap)
          IN  /\ file'.exists
              /\ IF keep = <<>> THEN file'.data = <<>>
                                ELSE ParsedLines(file'.data) = keep
              /\ usedIdMap' = {}]_vars

C4_Witness ==
    \E p \in Procs :
        /\ pc[p] = "SyncUnlock" /\ err[p] = "nil"
        /\ dropped # {} /\ dropped \subseteq Range(ids)
        /\ file.data # <<>> /\ usedIdMap = {}

\* C5: every identifier the file held when LoadIds read it, and that was not
\* marked used, is still in the file after the SyncIdsToFile that follows.
C5_UnusedSurviveRollover ==
    [][\A p \in Procs : SyncSucceeds(p) =>
          \A id \in cycleFile \ usedIdMap : id \in IdsIn(file')]_vars

\* C6: an identifier that was marked used at a successful SyncIdsToFile is
\* never again in the file, nor in a map LoadIds builds afterwards.
C6_DroppedStayDropped ==
    /\ \A id \in dropped : id \notin IdsIn(file)
    /\ \A p \in Procs : (pc[p] = "LoadRet" /\ err[p] = "nil") =>
          \A k \in DOMAIN idMap : idMap[k] \notin dropped

\* C7: GetId(k) returns 0 when k is no key of the map or its identifier is
\* marked used; for every other key it returns the identifier mapped to k,
\* which is non-zero and in [minId, maxId).
C7_GetIdContract ==
    [][\A p \in Procs : GetIdReturns(p) =>
          IF key[p] \notin DOMAIN idMap \/ idMap[key[p]] \in usedIdMap
            THEN ret'[p] = 0
            ELSE /\ ret'[p] = idMap[key[p]]
                 /\ ret'[p] # 0
                 /\ minId <= ret'[p] /\ ret'[p] < maxId]_vars

C9_GeneratedPool ==
    [][\A p \in Procs : GenerateReturns(p) =>
          /\ Len(ids') = idCount
          /\ \A i, j \in 1..Len(ids') : ids'[i] = ids'[j] => i = j
          /\ \A i \in 1..Len(ids') : minId <= ids'[i] /\ ids'[i] < maxId]_vars

\* C10: when LoadIds at start key K returns after a SaveIdsToFile of a pool
\* of at least idMapLength identifiers, key K+i is bound to the i-th saved
\* identifier for every i in 0..idMapLength-1.
C10_SaveLoadRoundTrip ==
    \A p \in Procs :
        (pc[p] = "LoadRet" /\ err[p] = "nil" /\ saved.ok
             /\ Len(saved.seq) >= idMapLength)
            => \A i \in 0..(idMapLength - 1) :
                   /\ startKey[p] + i \in DOMAIN idMap
                   /\ idMap[startKey[p] + i] = saved.seq[i + 1]

C10_Witness ==
    \E p \in Procs :
        /\ pc[p] = "LoadRet" /\ err[p] = "nil" /\ saved.ok
        /\ idMapLength > 1 /\ Len(saved.seq) >= idMapLength
        /\ startKey[p] > 0
        /\ \E i \in 1..Len(saved.seq) : saved.seq[i] >= 10

\* C11: LoadIds on a file with fewer lines than idMapLength returns an error:
\* it never panics indexing past the lines it read, and never returns nil.
C11_LoadUnderrunIsError ==
    \A p \in Procs :
        (idsStr[p] # <<>> /\ Len(idsStr[p]) < idMapLength)
            => /\ pc[p] # "panic"
               /\ pc[p] = "LoadRet" => err[p] # "nil"

\* The goroutine is between Lock and Unlock of GetId, MarkIdAsUsed or
\* SyncIdsToFile.
InCriticalSection(p) ==
    pc[p] \in {"GetIdBody", "MarkBody", "SyncCreate", "SyncWrite", "SyncUnlock"}

\* C12: at most one goroutine is inside the critical sections of GetId,
\* MarkIdAsUsed and SyncIdsToFile, and it is the one holding the lock; so no
\* GetId or MarkIdAsUsed is inside its critical section while SyncIdsToFile
\* reads or clears usedIdMap.
C12_MutualExclusion ==
    /\ \A p, q \in Procs : (InCriticalSection(p) /\ InCriticalSection(q)) => p = q
    /\ \A p \in Procs : InCriticalSection(p) => mu = p

C12_Witness ==
    \E p, q \in Procs :
        /\ pc[p] = "SyncWrite" /\ usedIdMap # {}
        /\ pc[q] \in {"GetIdLock", "MarkLock"}

\* The keys LoadIds binds when it starts at key k.
CycleKeys(k) == {k + i : i \in 0..(idMapLength - 1)}

LoadReturnsNil(p) == pc[p] = "LoadRet" /\ pc'[p] = "idle" /\ err[p] = "nil"

\* C13: when Initialize finds the file missing or empty and returns nil, the
\* pool has exactly idCount identifiers and the file holds them all, one per
\* line; when it finds a non-empty file it generates nothing, leaves the file
\* as it is and loads the map for the start of the current cycle.
C13_Initialize ==
    [][\A p \in Procs :
          /\ (inInitialize[p] /\ pc[p] = "SaveRet" /\ pc'[p] = "idle" /\ err[p] = "nil")
                => /\ Len(ids) = idCount
                   /\ file.exists
                   /\ Len(Split(file.data)) = idCount
                   /\ ParsedLines(file.data) = ids
          /\ (inInitialize[p] /\ LoadSteps(p))
                => /\ file' = file
                   /\ generations' = generations
                   /\ pc'[p] # "panic"
          /\ (inInitialize[p] /\ LoadReturnsNil(p))
                => /\ \E now \in Nows :
                         /\ startTime[p] = getCycleStartTime(now, 0)
                         /\ startTime[p] <= now /\ now < startTime[p] + cycleDuration
                   /\ DOMAIN idMap = CycleKeys(UnitKey(startTime[p]))
                   /\ \A i \in 0..(idMapLength - 1) :
                         idMap[UnitKey(startTime[p]) + i] = ParsedLines(file.data)[i + 1]]_vars

\* C14: the identifier GetId returns is in [minId, maxId] and is in the used
\* set when GetId returns.
C14_GetIdMarksUsed ==
    [][\A p \in Procs : (GetIdReturns(p) /\ ret'[p] # 0) =>
          /\ minId <= ret'[p] /\ ret'[p] <= maxId
          /\ ret'[p] \in usedIdMap']_vars

\* C15: every generator has idMapLength # 0 and cycleDuration exactly
\* idMapLength units long.
C15_ExactConfiguration ==
    /\ idMapLength # 0
    /\ idMapLength * unitDuration = cycleDuration

\* C16: when LoadIds at start key K returns nil the keys of the map are
\* exactly K .. K+idMapLength-1, key K+i bound to the pool's i-th identifier
\* (the file's i-th line); a GetId for any other key, such as one of an
\* earlier cycle, returns 0.
C16_MapRebuilt ==
    [][/\ \A p \in Procs : LoadReturnsNil(p) =>
             /\ DOMAIN idMap = CycleKeys(startKey[p])
             /\ Len(ids) = idMapLength
             /\ \A i \in 0..(idMapLength - 1) :
                   /\ idMap[startKey[p] + i] = ids[i + 1]
                   /\ idMap[startKey[p] + i] = ParsedLines(file.data)[i + 1]
       /\ \A p \in Procs : (GetIdReturns(p) /\ key[p] \notin DOMAIN idMap) => ret'[p] = 0]_vars

C16_Witness ==
    \E p \in Procs :
        /\ pc[p] = "got" /\ ret[p] = 0 /\ key[p] = 0
        /\ DOMAIN idMap = {1, 2} /\ idMapLength = 2
        /\ dropped # {}

\* The generator's configuration is one the specification allows.
ExactConfiguration == idMapLength # 0 /\ idMapLength * unitDuration = cycleDuration

\* C17: with cycleDuration an exact multiple of unitDuration, the cycle that
\* getCycleStartTime(0) starts holds now, getCycleStartTime(k) is k cycles
\* from it for k in {-1, 0, 1}, and the unit key of every instant of that cycle
\* is a key of the map loaded at getCycleStartTime(0).
C17_CycleStartAndKeys ==
    ExactConfiguration =>
        /\ \A now \in Nows :
              /\ getCycleStartTime(now, 0) <= now
              /\ now < getCycleStartTime(now, 0) + cycleDuration
              /\ \A k \in {-1, 0, 1} :
                    getCycleStartTime(now, k) = getCycleStartTime(now, 0) + k * cycleDuration
        /\ \A p \in Procs :
              (inInitialize[p] /\ pc[p] = "LoadRet" /\ err[p] = "nil")
                  => \A t \in startTime[p]..(startTime[p] + cycleDuration - 1) :
                         UnitKey(t) \in DOMAIN idMap

\* A step of LoadIds by goroutine p.
LoadStep(p) == LoadSteps(p) /\ (pc'[p] # pc[p] \/ li'[p] # li[p])

GetIdStep(p) ==
    pc'[p] # pc[p] /\ (pc'[p] = "GetIdLock" \/ pc[p] \in {"GetIdLock", "GetIdBody"})

MarkStep(p) ==
    pc'[p] # pc[p] /\ (pc'[p] = "MarkLock" \/ pc[p] \in {"MarkLock", "MarkBody"})

InLockedCall(p) ==
    pc[p] \in {"GetIdLock", "GetIdBody", "MarkLock", "MarkBody",
               "SyncLock", "SyncCreate", "SyncWrite", "SyncUnlock"}

\* C20: the lock is held only by a goroutine inside the critical section of
\* GetId, MarkIdAsUsed or SyncIdsToFile, never once its call has returned;
\* and under fair scheduling every such call returns.
C20_LockReleased ==
    /\ [](\A p \in Procs : mu = p => InCriticalSection(p))
    /\ [](mu \in Procs \cup {0})
    /\ \A p \in Procs : InLockedCall(p) ~> ~InLockedCall(p)

\* SyncIdsToFile is about to return an error, holding the lock another
\* caller waits for.
C20_Witness ==
    \E p, q \in Procs :
        /\ pc[p] = "SyncUnlock" /\ err[p] = "err" /\ mu = p
        /\ pc[q] \in {"GetIdLock", "MarkLock", "SyncLock"}

\* A step of a SyncIdsToFile call in which os.Create or WriteString fails, or
\* which returns the error.
SyncFails(p) ==
    /\ pc[p] \in {"SyncCreate", "SyncWrite", "SyncUnlock"}
    /\ pc'[p] # pc[p]
    /\ err[p] = "err" \/ err'[p] = "err"

\* C21: a SyncIdsToFile that cannot create or write the file returns the
\* error and leaves the used set, the pool and the map as they were; GetId
\* goes on returning 0 for a key whose identifier is in the used set.
C21_FailedSyncKeepsState ==
    [][/\ \A p \in Procs : SyncFails(p) =>
             /\ usedIdMap' = usedIdMap /\ ids' = ids /\ idMap' = idMap
             /\ pc[p] # "SyncUnlock" => (pc'[p] = "SyncUnlock" /\ err'[p] = "err")
       /\ \A p \in Procs :
             (GetIdReturns(p) /\ key[p] \in DOMAIN idMap /\ idMap[key[p]] \in usedIdMap)
                 => ret'[p] = 0]_vars

\* SyncIdsToFile is about to return an error while an identifier of the map
\* is marked used.
C21_Witness ==
    \E p \in Procs :
        /\ pc[p] = "SyncUnlock" /\ err[p] = "err"
        /\ \E k \in DOMAIN idMap : idMap[k] # 0 /\ idMap[k] \in usedIdMap

\* Goroutine p is in the generate-and-save branch of Initialize.
InitializeGenerates(p) ==
    /\ inInitialize[p]
    /\ pc[p] \in {"GenFill", "GenShuffle", "SaveCreate", "SaveWrite", "SaveRet"}

\* C22: the generate-and-save branch of Initialize builds no map: none of
\* its steps changes the map, only LoadIds does, and while no map has been
\* built GetId returns 0 for every key.
C22_NoMapUntilLoadIds ==
    [][/\ \A p \in Procs :
             (InitializeGenerates(p) \/ (pc[p] = "idle" /\ inInitialize'[p]))
                 => idMap' = idMap
       /\ idMap' # idMap => \E p \in Procs : LoadSteps(p) /\ LoadStep(p)
       /\ \A p \in Procs : (GetIdReturns(p) /\ idMap = <<>>) => ret'[p] = 0]_vars

\* Initialize is about to return nil from its generate-and-save branch: the
\* pool is generated and saved, and there is no map.
C22_Witness ==
    \E p \in Procs :
        /\ inInitialize[p] /\ pc[p] = "SaveRet" /\ err[p] = "nil"
        /\ Len(ids) = idCount /\ saved.ok /\ file.data # <<>>
        /\ idMap = <<>>

====
